---- MODULE Spec2Model ----
(***************************************************************************)
(* read_partition_config of src-tauri/src/super_image_creater.rs: open a   *)
(* file, deserialize its JSON text into a PartitionConfig, return it or a  *)
(* JsonParseError.  A file's text is a sequence of JSON tokens; the        *)
(* deserializer is the type-directed one that #[derive(Deserialize)]       *)
(* generates and serde_json::from_reader drives.                           *)
(***************************************************************************)
EXTENDS FiniteSets, Integers, Sequences, TLC

(* ------------------------------ JSON text ------------------------------ *)
\* One token of JSON text: punctuation, a literal, or a string with its value.
T(k) == [k |-> k, s |-> ""]
Str(s) == [k |-> "str", s |-> s]
Num(s) == [k |-> "num", s |-> s]

\* The kind of the token at position i; "eof" past the end of the text.
Peek(toks, i) == IF i >= 1 /\ i <= Len(toks) THEN toks[i].k ELSE "eof"

(* --------------------------- the declared types ------------------------ *)
\* Fields of each struct in declaration order: name, type, #[serde(default)].
F(n, ty, d) == [name |-> n, ty |-> ty, dflt |-> d]

PartitionConfigFields ==
    << F("super_meta", "SuperMeta", FALSE), F("nv_text", "String", FALSE),
       F("block_devices", "Vec<BlockDevice>", FALSE), F("groups", "Vec<Group>", FALSE),
       F("nv_id", "String", FALSE), F("partitions", "Vec<Partition>", FALSE) >>

SuperMetaFields == << F("path", "String", FALSE), F("size", "String", FALSE) >>

BlockDeviceFields ==
    << F("block_size", "String", FALSE), F("name", "String", FALSE),
       F("alignment", "String", FALSE), F("size", "String", FALSE) >>

\* The same without #[serde(default)] on maximum_size.
GroupFieldsNoDefault == << F("name", "String", FALSE), F("maximum_size", "String", FALSE) >>
GroupFields == << F("name", "String", FALSE), F("maximum_size", "String", TRUE) >>

PartitionFields ==
    << F("is_dynamic", "bool", FALSE), F("name", "String", FALSE),
       F("group_name", "String", FALSE), F("path", "String", TRUE),
       F("size", "String", TRUE) >>

StructNames == {"PartitionConfig", "SuperMeta", "BlockDevice", "Group", "Partition"}

Fields(ty) ==
    CASE ty = "PartitionConfig" -> PartitionConfigFields
      [] ty = "SuperMeta" -> SuperMetaFields
      [] ty = "BlockDevice" -> BlockDeviceFields
      [] ty = "Group" -> GroupFields
      [] ty = "Partition" -> PartitionFields

ElemType(ty) ==
    CASE ty = "Vec<BlockDevice>" -> "BlockDevice"
      [] ty = "Vec<Group>" -> "Group"
      [] ty = "Vec<Partition>" -> "Partition"

FieldNames(ty) == {Fields(ty)[j].name : j \in 1..Len(Fields(ty))}
FieldOf(ty, n) == Fields(ty)[CHOOSE j \in 1..Len(Fields(ty)) : Fields(ty)[j].name = n]

\* A name written with capitals.
Cap(name) ==
    CASE name = "path" -> "Path"
      [] name = "size" -> "Size"
      [] name = "name" -> "Name"
      [] name = "maximum_size" -> "Maximum_Size"
      [] name = "is_dynamic" -> "Is_Dynamic"
      [] name = "group_name" -> "Group_Name"
      [] name = "block_size" -> "Block_Size"
      [] name = "alignment" -> "Alignment"
      [] name = "super_meta" -> "Super_Meta"
      [] name = "nv_text" -> "NV_Text"
      [] name = "block_devices" -> "Block_Devices"
      [] name = "groups" -> "Groups"
      [] name = "nv_id" -> "NV_ID"
      [] name = "partitions" -> "Partitions"

\* The same, matching a key whatever its letter case.
FieldKeyIgnoreCase(ty, key) ==
    IF \E n \in FieldNames(ty) : key = n \/ key = Cap(n)
    THEN << CHOOSE n \in FieldNames(ty) : key = n \/ key = Cap(n) >>
    ELSE << >>
\* The field a key names (rename_all = "snake_case" leaves the snake_case
\* names as declared): the field of exactly that name, or none.
FieldKey(ty, key) == IF key \in FieldNames(ty) THEN << key >> ELSE << >>

(* ----------------------------- deserializer ---------------------------- *)
\* A step's outcome: a value and the position after it, or a failure.
Fail == [ok |-> FALSE, val |-> <<>>, pos |-> 0]
Good(v, p) == [ok |-> TRUE, val |-> v, pos |-> p]

NoFields == [n \in {} |-> ""]
Put(acc, n, v) == [m \in DOMAIN acc \cup {n} |-> IF m = n THEN v ELSE acc[m]]

Scalars == {"str", "num", "true", "false", "null"}

RECURSIVE ignore_value(_, _), IgnoreSeq(_, _, _), IgnoreMap(_, _, _)
\* IgnoredAny: skip one syntactically valid value; the position after it, 0 on error.
ignore_value(toks, i) ==
    CASE Peek(toks, i) \in Scalars -> i + 1
      [] Peek(toks, i) = "[" -> IgnoreSeq(toks, i + 1, TRUE)
      [] Peek(toks, i) = "{" -> IgnoreMap(toks, i + 1, TRUE)
      [] OTHER -> 0

IgnoreSeq(toks, i, first) ==
    IF Peek(toks, i) = "]" THEN i + 1
    ELSE IF first THEN
        LET p == ignore_value(toks, i) IN IF p = 0 THEN 0 ELSE IgnoreSeq(toks, p, FALSE)
    ELSE IF Peek(toks, i) = "," /\ Peek(toks, i + 1) # "]" THEN
        LET p == ignore_value(toks, i + 1) IN IF p = 0 THEN 0 ELSE IgnoreSeq(toks, p, FALSE)
    ELSE 0

IgnoreMap(toks, i, first) ==
    IF Peek(toks, i) = "}" THEN i + 1
    ELSE LET k == IF first THEN i
                  ELSE IF Peek(toks, i) = "," THEN i + 1 ELSE 0
         IN IF k = 0 \/ Peek(toks, k) # "str" \/ Peek(toks, k + 1) # ":" THEN 0
            ELSE LET p == ignore_value(toks, k + 2)
                 IN IF p = 0 THEN 0 ELSE IgnoreMap(toks, p, FALSE)

\* deserialize_string / deserialize_bool: the token must be of that JSON type.
DeString(toks, i) == IF Peek(toks, i) = "str" THEN Good(toks[i].s, i + 1) ELSE Fail
DeBool(toks, i) ==
    CASE Peek(toks, i) = "true" -> Good(TRUE, i + 1)
      [] Peek(toks, i) = "false" -> Good(FALSE, i + 1)
      [] OTHER -> Fail

\* After the last key of a map: a missing field takes its default if it has
\* one, and is an error otherwise.
Finish(ty, acc, p) ==
    IF \E n \in FieldNames(ty) : n \notin DOMAIN acc /\ ~FieldOf(ty, n).dflt THEN Fail
    ELSE Good([n \in FieldNames(ty) |-> IF n \in DOMAIN acc THEN acc[n] ELSE ""], p)

\* The same, each element put before the earlier ones.
CollectFront(acc, v) == << v >> \o acc
\* Vec<T> takes its elements in the order of the text.
Collect(acc, v) == Append(acc, v)

RECURSIVE De(_, _, _), VisitMap(_, _, _, _, _), VisitSeq(_, _, _, _, _, _),
          VecSeq(_, _, _, _, _)

\* The derived visit_map: each key is matched against the field names, a known
\* key seen twice is an error, an unknown key's value is skipped.
VisitMap(ty, toks, i, first, acc) ==
    IF Peek(toks, i) = "}" THEN Finish(ty, acc, i + 1)
    ELSE LET k == IF first THEN i
                  ELSE IF Peek(toks, i) = "," THEN i + 1 ELSE 0
         IN IF k = 0 \/ Peek(toks, k) # "str" \/ Peek(toks, k + 1) # ":" THEN Fail
            ELSE LET fk == FieldKey(ty, toks[k].s) IN
                 IF fk # << >> THEN
                     IF fk[1] \in DOMAIN acc THEN Fail
                     ELSE LET r == De(FieldOf(ty, fk[1]).ty, toks, k + 2)
                          IN IF ~r.ok THEN Fail
                             ELSE VisitMap(ty, toks, r.pos, FALSE, Put(acc, fk[1], r.val))
                 ELSE LET p == ignore_value(toks, k + 2)
                      IN IF p = 0 THEN Fail ELSE VisitMap(ty, toks, p, FALSE, acc)

\* The derived visit_seq: the fields are taken by position, in declaration
\* order; the array must end after the last one it gives.
VisitSeq(ty, toks, i, first, j, acc) ==
    IF j > Len(Fields(ty)) THEN
        IF Peek(toks, i) = "]" THEN Finish(ty, acc, i + 1) ELSE Fail
    ELSE IF Peek(toks, i) = "]" THEN Finish(ty, acc, i + 1)
    ELSE LET k == IF first THEN i
                  ELSE IF Peek(toks, i) = "," /\ Peek(toks, i + 1) # "]" THEN i + 1 ELSE 0
         IN IF k = 0 THEN Fail
            ELSE LET r == De(Fields(ty)[j].ty, toks, k)
                 IN IF ~r.ok THEN Fail
                    ELSE VisitSeq(ty, toks, r.pos, FALSE, j + 1,
                                  Put(acc, Fields(ty)[j].name, r.val))

\* Vec<T>: a JSON array, element by element.
VecSeq(ety, toks, i, first, acc) ==
    IF Peek(toks, i) = "]" THEN Good(acc, i + 1)
    ELSE LET k == IF first THEN i
                  ELSE IF Peek(toks, i) = "," /\ Peek(toks, i + 1) # "]" THEN i + 1 ELSE 0
         IN IF k = 0 THEN Fail
            ELSE LET r == De(ety, toks, k)
                 IN IF ~r.ok THEN Fail
                    ELSE VecSeq(ety, toks, r.pos, FALSE, Collect(acc, r.val))

\* Deserialize a value of declared type ty from position i.
De(ty, toks, i) ==
    CASE ty = "String" -> DeString(toks, i)
      [] ty = "bool" -> DeBool(toks, i)
      [] ty \in StructNames ->
            (CASE Peek(toks, i) = "{" -> VisitMap(ty, toks, i + 1, TRUE, NoFields)
               [] Peek(toks, i) = "[" -> VisitSeq(ty, toks, i + 1, TRUE, 1, NoFields)
               [] OTHER -> Fail)
      [] OTHER ->
            IF Peek(toks, i) = "[" THEN VecSeq(ElemType(ty), toks, i + 1, TRUE, <<>>)
            ELSE Fail

\* serde_json::from_reader::<PartitionConfig>: one value, then the end of input.
from_reader(toks) ==
    LET r == De("PartitionConfig", toks, 1)
    IN IF r.ok /\ r.pos = Len(toks) + 1 THEN Good(r.val, r.pos) ELSE Fail

(* --------------------------- input documents --------------------------- *)
\* Bounds of the inputs.
MaxElems == 2
TruncStep == 9

\* The values a document is written from.
SuperMetaV == [path |-> "/dev/super", size |-> "100"]
BlockDeviceV(n) ==
    [block_size |-> "4096", name |-> <<"sda", "sdb", "sdc", "sdd">>[n],
     alignment |-> "1", size |-> <<"1000", "2000", "3000", "4000">>[n]]
GroupV(n) ==
    [name |-> <<"g1", "g2", "g3", "g4">>[n],
     maximum_size |-> <<"512", "256", "128", "64">>[n]]
PartitionV(n) ==
    [is_dynamic |-> (n % 2 = 1), name |-> <<"p1", "p2", "p3", "p4">>[n],
     group_name |-> <<"g1", "g2", "g3", "g4">>[n],
     path |-> <<"/img/p1", "/img/p2", "/img/p3", "/img/p4">>[n],
     size |-> <<"10", "20", "30", "40">>[n]]

\* The order in which a document lists its elements: 1..n or n..1.
ElemOrders ==
    {[j \in 1..n |-> j] : n \in 0..MaxElems} \cup
    {[j \in 1..n |-> n + 1 - j] : n \in 0..MaxElems}
FullOrder == [j \in 1..MaxElems |-> j]

Optionals == {"maximum_size", "path", "size"}

\* How a document departs from the plain form: nothing, or one departure at
\* the members named field of the objects of type ty.
NoFx == [ty |-> "", field |-> "", how |-> "none"]
RECURSIVE Join(_)
Join(parts) ==
    IF Len(parts) = 0 THEN <<>>
    ELSE IF Len(parts) = 1 THEN parts[1]
    ELSE parts[1] \o <<T(",")>> \o Join(Tail(parts))
RECURSIVE Flat(_)
Flat(ss) == IF Len(ss) = 0 THEN <<>> ELSE ss[1] \o Flat(Tail(ss))

Arr(items) == <<T("[")>> \o Join(items) \o <<T("]")>>
KV(k, v) == <<Str(k), T(":")>> \o v
Nested == <<T("{"), Str("a"), T(":"), T("["), Num("1"), T(","), T("{"), T("}"),
            T("]"), T(","), Str("path"), T(":"), T("null"), T("}")>>

\* The members a field contributes to its object: one, none or two.
Member(ty, name, val, omit, fx) ==
    IF name \in omit THEN
        IF fx.ty = ty /\ fx.field = name /\ fx.how = "case"
        THEN << KV(Cap(name), val) >> ELSE << >>
    ELSE IF fx.ty # ty \/ fx.field # name THEN << KV(name, val) >>
    ELSE CASE fx.how = "missing" -> << >>
           [] fx.how = "case" -> << KV(Cap(name), val) >>
           [] fx.how = "dup" -> << KV(name, val), KV(name, val) >>
           [] fx.how = "num" -> << KV(name, <<Num("7")>>) >>
           [] fx.how = "null" -> << KV(name, <<T("null")>>) >>
           [] fx.how = "string" -> << KV(name, <<Str("true")>>) >>
           [] fx.how = "bool" -> << KV(name, <<T("true")>>) >>
           [] fx.how = "object" -> << KV(name, <<T("{"), T("}")>>) >>
           [] OTHER -> << KV(name, val) >>

Reverse(q) == [j \in 1..Len(q) |-> q[Len(q) + 1 - j]]

\* An object of type ty; with "unknown" it also carries keys that name no
\* field, with "reversed" its keys come in the opposite order, with "array"
\* its values are written as a JSON array instead.
Obj(ty, members, vals, fx) ==
    IF fx.ty = ty /\ fx.how = "array" THEN Arr(vals)
    ELSE IF fx.ty = ty /\ fx.how = "reversed" THEN
        <<T("{")>> \o Join(Reverse(Flat(members))) \o <<T("}")>>
    ELSE IF fx.ty = ty /\ fx.how = "unknown" THEN
        <<T("{")>> \o Join(<<KV("extra", Nested)>> \o Flat(members)
                           \o <<KV("extra", <<Str("x")>>), KV("", <<Num("0")>>)>>)
        \o <<T("}")>>
    ELSE <<T("{")>> \o Join(Flat(members)) \o <<T("}")>>

SV(s) == <<Str(s)>>
BV(b) == <<T(IF b THEN "true" ELSE "false")>>

SerSuperMeta(v, fx) ==
    Obj("SuperMeta",
        << Member("SuperMeta", "path", SV(v.path), {}, fx),
           Member("SuperMeta", "size", SV(v.size), {}, fx) >>,
        << SV(v.path), SV(v.size) >>, fx)

SerBlockDevice(v, fx) ==
    Obj("BlockDevice",
        << Member("BlockDevice", "block_size", SV(v.block_size), {}, fx),
           Member("BlockDevice", "name", SV(v.name), {}, fx),
           Member("BlockDevice", "alignment", SV(v.alignment), {}, fx),
           Member("BlockDevice", "size", SV(v.size), {}, fx) >>,
        << SV(v.block_size), SV(v.name), SV(v.alignment), SV(v.size) >>, fx)

SerGroup(v, omit, fx) ==
    Obj("Group",
        << Member("Group", "name", SV(v.name), omit, fx),
           Member("Group", "maximum_size", SV(v.maximum_size), omit, fx) >>,
        << SV(v.name) >> \o
            (IF "maximum_size" \in omit THEN <<>> ELSE << SV(v.maximum_size) >>), fx)

SerPartition(v, omit, fx) ==
    Obj("Partition",
        << Member("Partition", "is_dynamic", BV(v.is_dynamic), omit, fx),
           Member("Partition", "name", SV(v.name), omit, fx),
           Member("Partition", "group_name", SV(v.group_name), omit, fx),
           Member("Partition", "path", SV(v.path), omit, fx),
           Member("Partition", "size", SV(v.size), omit, fx) >>,
        << BV(v.is_dynamic), SV(v.name), SV(v.group_name) >> \o
            (IF omit \cap {"path", "size"} # {} THEN <<>>
             ELSE << SV(v.path), SV(v.size) >>), fx)

\* Element 1 is the one written without the omitted optional fields.
OmitAt(n, omit) == IF n = 1 THEN omit ELSE {}

\* The text of a document: its elements in the given order, element 1
\* without the optional fields in omit, departing from the plain form by fx.
Ser(order, omit, fx) ==
    Obj("PartitionConfig",
        << Member("PartitionConfig", "super_meta", SerSuperMeta(SuperMetaV, fx), {}, fx),
           Member("PartitionConfig", "nv_text", SV("v1"), {}, fx),
           Member("PartitionConfig", "block_devices",
                  Arr([j \in 1..Len(order) |-> SerBlockDevice(BlockDeviceV(order[j]), fx)]),
                  {}, fx),
           Member("PartitionConfig", "groups",
                  Arr([j \in 1..Len(order) |->
                          SerGroup(GroupV(order[j]), OmitAt(order[j], omit), fx)]),
                  {}, fx),
           Member("PartitionConfig", "nv_id", SV("abc"), {}, fx),
           Member("PartitionConfig", "partitions",
                  Arr([j \in 1..Len(order) |->
                          SerPartition(PartitionV(order[j]), OmitAt(order[j], omit), fx)]),
                  {}, fx) >>,
        << SerSuperMeta(SuperMetaV, fx), SV("v1"),
           Arr([j \in 1..Len(order) |-> SerBlockDevice(BlockDeviceV(order[j]), fx)]),
           Arr([j \in 1..Len(order) |->
                   SerGroup(GroupV(order[j]), OmitAt(order[j], omit), fx)]),
           SV("abc"),
           Arr([j \in 1..Len(order) |->
                   SerPartition(PartitionV(order[j]), OmitAt(order[j], omit), fx)]) >>,
        fx)

\* The PartitionConfig that a document written this way describes.
Blank(v, omit) == [n \in DOMAIN v |-> IF n \in omit THEN "" ELSE v[n]]
Described(order, omit) ==
    [super_meta |-> SuperMetaV, nv_text |-> "v1",
     block_devices |-> [j \in 1..Len(order) |-> BlockDeviceV(order[j])],
     groups |-> [j \in 1..Len(order) |-> Blank(GroupV(order[j]), OmitAt(order[j], omit))],
     nv_id |-> "abc",
     partitions |-> [j \in 1..Len(order) |->
                        Blank(PartitionV(order[j]), OmitAt(order[j], omit))]]

\* Every field of the document format, and the JSON type its value has.
DocFields ==
    { <<"PartitionConfig", "super_meta">>, <<"PartitionConfig", "nv_text">>,
      <<"PartitionConfig", "block_devices">>, <<"PartitionConfig", "groups">>,
      <<"PartitionConfig", "nv_id">>, <<"PartitionConfig", "partitions">>,
      <<"SuperMeta", "path">>, <<"SuperMeta", "size">>,
      <<"BlockDevice", "block_size">>, <<"BlockDevice", "name">>,
      <<"BlockDevice", "alignment">>, <<"BlockDevice", "size">>,
      <<"Group", "name">>, <<"Group", "maximum_size">>,
      <<"Partition", "is_dynamic">>, <<"Partition", "name">>,
      <<"Partition", "group_name">>, <<"Partition", "path">>,
      <<"Partition", "size">> }
OptionalFields ==
    { <<"Group", "maximum_size">>, <<"Partition", "path">>, <<"Partition", "size">> }
RequiredFields == DocFields \ OptionalFields
JsonType(f) ==
    IF f = <<"PartitionConfig", "super_meta">> THEN "object"
    ELSE IF f[2] \in {"block_devices", "groups", "partitions"} THEN "array"
    ELSE IF f[2] = "is_dynamic" THEN "bool"
    ELSE "string"

WrongTypes(f) == {"num", "null", "string", "bool", "object"} \ {JsonType(f)}
Fx(f, how) == [ty |-> f[1], field |-> f[2], how |-> how]
TypeFx(ty, how) == [ty |-> ty, field |-> "", how |-> how]

Omits == {{}, Optionals}
PlainDoc == Ser(FullOrder, {}, NoFx)

\* The documents the runs read.
ConformingDocs == {Ser(o, om, NoFx) : o \in ElemOrders, om \in SUBSET Optionals}
FaultyDocs ==
    {Ser(FullOrder, om, Fx(f, h)) :
        om \in Omits, f \in DocFields, h \in {"missing", "case", "dup"}}
    \cup UNION {{Ser(FullOrder, om, Fx(f, h)) : om \in Omits, h \in WrongTypes(f)} :
                    f \in DocFields}
    \cup {Ser(FullOrder, om, TypeFx(ty, h)) :
            om \in Omits, ty \in StructNames, h \in {"unknown", "reversed", "array"}}
TruncatedDocs ==
    {SubSeq(PlainDoc, 1, k) : k \in {n \in 0..(Len(PlainDoc) - 1) : n % TruncStep = 0}}
TrailingDocs == {PlainDoc \o <<T("}")>>, PlainDoc \o <<T(",")>> \o PlainDoc}
AllDocs == ConformingDocs \cup FaultyDocs \cup TruncatedDocs \cup TrailingDocs

(* ------------------------------- files --------------------------------- *)
\* What a path names: nothing, a directory (it opens, and reading it fails),
\* or a regular file with its text.
MissingFile == [kind |-> "missing", toks |-> <<>>]
Directory == [kind |-> "dir", toks |-> <<>>]
RegularFile(toks) == [kind |-> "file", toks |-> toks]

Paths == {"a.json", "b.json"}
Calls == {"c1", "c2"}

\* Bounds of the runs: writes by other processes, tokens one read returns.
MaxWrites == 1
ChunkLen == 64

\* The files of the concurrent runs, and the texts other processes write.
SmallDoc == Ser(<<1>>, {}, NoFx)
FewDocs ==
    { SmallDoc, Ser(<<1>>, Optionals, NoFx), SubSeq(SmallDoc, 1, Len(SmallDoc) - 1),
      Ser(<<1>>, {}, TypeFx("SuperMeta", "array")) }
FewFiles == {MissingFile, Directory} \cup {RegularFile(d) : d \in FewDocs}
WrittenDocs == {SmallDoc, Ser(<<1>>, Optionals, NoFx)}

(* ------------------------------- state --------------------------------- *)
VARIABLES
    fs,        \* what each path names
    writes,    \* how many times each path's file was rewritten by others
    pc,        \* where each call of read_partition_config is
    path,      \* its argument
    handle,    \* whether the File it opened is open
    buf,       \* the text from_reader has read so far
    rd,        \* how its reading ended: "none", "eof", "ioerr"
    outcome,   \* what from_reader returned to it
    result,    \* what the call returned
    opens,     \* how many times it tried to open the file
    parses,    \* how many times it ran the deserializer
    startVer,  \* the file's write count when the call started
    file0,     \* what the path named when the call started
    dirty      \* whether the file was rewritten while the call ran

vars == << fs, writes, pc, path, handle, buf, rd, outcome, result, opens, parses,
           startVer, file0, dirty >>

\* Result<PartitionConfig, JsonParseError>
OkResult(cfg) == [kind |-> "Ok", config |-> <<cfg>>]
ErrResult(kind) == [kind |-> kind, config |-> <<>>]
NoResult == [kind |-> "", config |-> <<>>]

\* From<std::io::Error> and From<serde_json::Error> of JsonParseError.
\* (the first with the variant of the second)
FromIoErrorSwapped == "JsonError"
FromIoError == "FileError"
FromSerdeError == "JsonError"

\* What from_reader returns: a serde_json::Error, also when reading failed.
SerdeOk(cfg) == [ok |-> TRUE, config |-> <<cfg>>]
SerdeErr == [ok |-> FALSE, config |-> <<>>]
NoOutcome == [ok |-> FALSE, config |-> <<>>]

TypeOK ==
    /\ pc \in [Calls -> {"idle", "open", "read", "parse", "ret", "done"}]
    /\ handle \in [Calls -> BOOLEAN]
    /\ rd \in [Calls -> {"none", "eof", "ioerr"}]
    /\ \A c \in Calls : result[c].kind \in {"", "Ok", "FileError", "JsonError"}

InitCalls ==
    /\ writes = [p \in Paths |-> 0]
    /\ pc = [c \in Calls |-> "idle"]
    /\ path = [c \in Calls |-> "a.json"]
    /\ handle = [c \in Calls |-> FALSE]
    /\ buf = [c \in Calls |-> <<>>]
    /\ rd = [c \in Calls |-> "none"]
    /\ outcome = [c \in Calls |-> NoOutcome]
    /\ result = [c \in Calls |-> NoResult]
    /\ opens = [c \in Calls |-> 0]
    /\ parses = [c \in Calls |-> 0]
    /\ startVer = [c \in Calls |-> 0]
    /\ file0 = [c \in Calls |-> MissingFile]
    /\ dirty = [c \in Calls |-> FALSE]

Init == fs \in [Paths -> FewFiles] /\ InitCalls

\* read_partition_config(p) is called.
Call(c, p) ==
    /\ pc[c] = "idle"
    /\ pc' = [pc EXCEPT ![c] = "open"]
    /\ path' = [path EXCEPT ![c] = p]
    /\ startVer' = [startVer EXCEPT ![c] = writes[p]]
    /\ file0' = [file0 EXCEPT ![c] = fs[p]]
    /\ UNCHANGED << fs, writes, handle, buf, rd, outcome, result, opens, parses, dirty >>

\* The same, trying the open a second time when the first one fails.
OpenRetry(c) ==
    /\ pc[c] = "open"
    /\ opens' = [opens EXCEPT ![c] = @ + 1]
    /\ IF fs[path[c]].kind = "missing"
       THEN IF opens[c] = 0
            THEN UNCHANGED << result, pc, handle >>
            ELSE /\ result' = [result EXCEPT ![c] = ErrResult(FromIoError)]
                 /\ pc' = [pc EXCEPT ![c] = "done"]
                 /\ UNCHANGED handle
       ELSE /\ handle' = [handle EXCEPT ![c] = TRUE]
            /\ pc' = [pc EXCEPT ![c] = "read"]
            /\ UNCHANGED result
    /\ UNCHANGED << fs, writes, path, buf, rd, outcome, parses, startVer, file0, dirty >>

\* let file = File::open(path)?;
Open(c) ==
    /\ pc[c] = "open"
    /\ opens' = [opens EXCEPT ![c] = @ + 1]
    /\ IF fs[path[c]].kind = "missing"
       THEN /\ result' = [result EXCEPT ![c] = ErrResult(FromIoError)]
            /\ pc' = [pc EXCEPT ![c] = "done"]
            /\ UNCHANGED handle
       ELSE /\ handle' = [handle EXCEPT ![c] = TRUE]
            /\ pc' = [pc EXCEPT ![c] = "read"]
            /\ UNCHANGED result
    /\ UNCHANGED << fs, writes, path, buf, rd, outcome, parses, startVer, file0, dirty >>

\* The same with one file offset shared by the calls that read a path.
RemainingSharedOffset(b, c, toks) ==
    LET off == CHOOSE n \in {Len(b[d]) : d \in {x \in Calls : path[x] = path[c]}} :
                   \A d \in {x \in Calls : path[x] = path[c]} : Len(b[d]) <= n
    IN SubSeq(toks, off + 1, Len(toks))
\* File::open gives the call a handle of its own: what is left to read of the
\* file lies after what this call has read.
Remaining(b, c, toks) == SubSeq(toks, Len(b[c]) + 1, Len(toks))

\* The same with one buffer shared by every call.
ReadIntoShared(b, c, chunk) == [d \in Calls |-> b[d] \o chunk]
\* The text a read returns goes to the reader of this call alone.
ReadInto(b, c, chunk) == [b EXCEPT ![c] = @ \o chunk]

\* from_reader pulls the file's text: a read fails, reports the end of the
\* file, or returns more text.
Read(c) ==
    /\ pc[c] = "read"
    /\ handle[c]
    /\ LET f == fs[path[c]]
           rest == Remaining(buf, c, f.toks)
       IN IF f.kind = "dir"
          THEN /\ rd' = [rd EXCEPT ![c] = "ioerr"]
               /\ pc' = [pc EXCEPT ![c] = "parse"]
               /\ UNCHANGED buf
          ELSE IF rest = << >>
          THEN /\ rd' = [rd EXCEPT ![c] = "eof"]
               /\ pc' = [pc EXCEPT ![c] = "parse"]
               /\ UNCHANGED buf
          ELSE /\ buf' = ReadInto(buf, c, SubSeq(rest, 1, IF Len(rest) < ChunkLen
                                                          THEN Len(rest) ELSE ChunkLen))
               /\ UNCHANGED << rd, pc >>
    /\ UNCHANGED << fs, writes, path, handle, outcome, result, opens, parses,
                    startVer, file0, dirty >>

\* What serde_json::from_reader(file) returns for the text it read.
Deserialized(c) ==
    IF rd[c] = "ioerr" THEN SerdeErr
    ELSE LET r == from_reader(buf[c]) IN IF r.ok THEN SerdeOk(r.val) ELSE SerdeErr

\* The same, the File leaked instead of dropped.
DropKeepsOpen(h, c) == h
\* from_reader took the File by value: it is dropped when from_reader returns.
Drop(h, c) == [h EXCEPT ![c] = FALSE]

\* let config = serde_json::from_reader(file) ...
Parse(c) ==
    /\ pc[c] = "parse"
    /\ parses' = [parses EXCEPT ![c] = @ + 1]
    /\ outcome' = [outcome EXCEPT ![c] = Deserialized(c)]
    /\ handle' = Drop(handle, c)
    /\ pc' = [pc EXCEPT ![c] = "ret"]
    /\ UNCHANGED << fs, writes, path, buf, rd, result, opens, startVer, file0, dirty >>

\* ... ?;  Ok(config)
Return(c) ==
    /\ pc[c] = "ret"
    /\ result' = [result EXCEPT ![c] =
                     IF outcome[c].ok THEN OkResult(outcome[c].config[1])
                     ELSE ErrResult(FromSerdeError)]
    /\ pc' = [pc EXCEPT ![c] = "done"]
    /\ UNCHANGED << fs, writes, path, handle, buf, rd, outcome, opens, parses,
                    startVer, file0, dirty >>

RECURSIVE Sum(_, _)
Sum(f, S) == IF S = {} THEN 0 ELSE LET x == CHOOSE y \in S : TRUE IN f[x] + Sum(f, S \ {x})

Running(c) == pc[c] \in {"open", "read", "parse", "ret"}

\* Another process rewrites a regular file in place.
Write(p, d) ==
    /\ Sum(writes, Paths) < MaxWrites
    /\ fs[p].kind = "file"
    /\ fs[p].toks # d
    /\ fs' = [fs EXCEPT ![p] = RegularFile(d)]
    /\ writes' = [writes EXCEPT ![p] = @ + 1]
    /\ dirty' = [c \in Calls |-> dirty[c] \/ (Running(c) /\ path[c] = p)]
    /\ UNCHANGED << pc, path, handle, buf, rd, outcome, result, opens, parses, startVer,
                    file0 >>

Next ==
    \/ \E c \in Calls, p \in Paths : Call(c, p)
    \/ \E c \in Calls : Open(c)
    \/ \E c \in Calls : Read(c)
    \/ \E c \in Calls : Parse(c)
    \/ \E c \in Calls : Return(c)
    \/ \E p \in Paths, d \in WrittenDocs : Write(p, d)

Spec == Init /\ [][Next]_vars

\* One call at a time, over every document.
InitLoad ==
    /\ fs \in [Paths -> {MissingFile, Directory} \cup {RegularFile(d) : d \in AllDocs}]
    /\ fs["b.json"] = MissingFile
    /\ InitCalls

NextLoad ==
    \/ \E p \in Paths : Call("c1", p)
    \/ Open("c1")
    \/ Read("c1")
    \/ Parse("c1")
    \/ Return("c1")
    \/ \E p \in Paths, d \in WrittenDocs : Write(p, d)

SpecLoad == InitLoad /\ [][NextLoad]_vars

(* ------------------------------- claims -------------------------------- *)
Done(c) == pc[c] = "done"
\* The call has returned and its file was not rewritten while it ran.
Clean(c) == Done(c) /\ ~dirty[c]
\* It has returned after reading its file to the end without an I/O failure.
ReadAll(c) == Clean(c) /\ rd[c] = "eof"

\* A described configuration with field f blank in every element.
BlankField(cfg, f) ==
    IF f[1] = "Group"
    THEN [cfg EXCEPT !.groups = [j \in DOMAIN @ |-> [@[j] EXCEPT ![f[2]] = ""]]]
    ELSE [cfg EXCEPT !.partitions = [j \in DOMAIN @ |-> [@[j] EXCEPT ![f[2]] = ""]]]

\* Documents with every field present, and what each describes.
CompleteInputs ==
    {[toks |-> Ser(o, {}, NoFx), cfg |-> Described(o, {})] : o \in ElemOrders}
    \cup {[toks |-> Ser(FullOrder, {}, TypeFx(ty, "reversed")),
           cfg |-> Described(FullOrder, {})] : ty \in StructNames}
\* Documents whose element 1 omits optional fields, and what each describes.
OmittingInputs ==
    {[toks |-> Ser(o, om, NoFx), cfg |-> Described(o, om)] :
        o \in {x \in ElemOrders : Len(x) >= 1}, om \in (SUBSET Optionals) \ {{}}}

\* C1: a readable file whose text is valid JSON of the schema with every field
\* present (the keys of an object in either order) loads successfully to the
\* configuration it describes: each string and boolean equal to the JSON
\* value, each list with the input's elements in the input's order.
C1_LoadsValidDocument ==
    \A c \in Calls : ReadAll(c) =>
        \A d \in CompleteInputs : buf[c] = d.toks => result[c] = OkResult(d.cfg)

C1_Witness ==
    \E c \in Calls :
        /\ ReadAll(c)
        /\ MaxElems >= 2
        /\ buf[c] = Ser([j \in 1..MaxElems |-> MaxElems + 1 - j], {}, NoFx)
        /\ result[c].kind = "Ok"
        /\ Len(result[c].config[1].partitions) = MaxElems
        /\ result[c].config[1].partitions[1].name = PartitionV(MaxElems).name

\* C2: when element 1 of an otherwise valid document omits maximum_size, path
\* or size, the load succeeds, the omitted fields are the empty string and
\* every other field keeps its input value.
C2_OmittedOptionalIsEmpty ==
    \A c \in Calls : ReadAll(c) =>
        \A d \in OmittingInputs : buf[c] = d.toks => result[c] = OkResult(d.cfg)

C2_Witness ==
    \E c \in Calls :
        /\ ReadAll(c)
        /\ buf[c] = Ser(<<1>>, Optionals, NoFx)
        /\ result[c].kind = "Ok"
        /\ result[c].config[1].groups[1].maximum_size = ""
        /\ result[c].config[1].partitions[1].path = ""
        /\ result[c].config[1].partitions[1].size = ""
        /\ result[c].config[1].partitions[1].is_dynamic = TRUE
        /\ result[c].config[1].partitions[1].group_name = "g1"

\* C3: a call whose path names no file fails with FileError, never with
\* JsonError, and performs no read and no parsing step after the failed open.
C3_MissingFileIsFileError ==
    \A c \in Calls : (Done(c) /\ file0[c].kind = "missing") =>
        /\ result[c] = ErrResult("FileError")
        /\ parses[c] = 0
        /\ rd[c] = "none"
        /\ buf[c] = << >>

C3_Witness ==
    \E c \in Calls : Done(c) /\ file0[c].kind = "missing" /\ opens[c] = 1

\* C4: every I/O failure of a call, the failed open and also a read that
\* fails after the open succeeded, is reported as FileError.
C4_IoFailureIsFileError ==
    \A c \in Calls : (Done(c) /\ (file0[c].kind = "missing" \/ rd[c] = "ioerr")) =>
        result[c].kind = "FileError"

\* Documents whose text is malformed, lacks a required field, or gives a field
\* a value of another JSON type than the schema's.
MalformedDocs == TruncatedDocs \cup TrailingDocs
MissingRequiredDocs ==
    {Ser(FullOrder, om, Fx(f, "missing")) : om \in Omits, f \in RequiredFields}
ScalarWrongTypeDocs ==
    UNION {{Ser(FullOrder, om, Fx(f, h)) : om \in Omits, h \in WrongTypes(f)} :
              f \in DocFields}
ArrayForObjectDocs ==
    {Ser(FullOrder, om, TypeFx(ty, "array")) : om \in Omits, ty \in StructNames}

\* C5: a file read without I/O failure whose text is malformed JSON, omits a
\* required field or gives a field a value of the wrong JSON type fails with
\* JsonError; it neither loads nor fails with FileError.
C5_BadDocumentIsJsonError ==
    \A c \in Calls : ReadAll(c) =>
        (buf[c] \in MalformedDocs \cup MissingRequiredDocs \cup ScalarWrongTypeDocs
                    \cup ArrayForObjectDocs
            => result[c] = ErrResult("JsonError"))

\* The part of C5 that the code keeps: every such document except those that
\* write an object as an array of its values.
C5_ExceptArrayForObject ==
    \A c \in Calls : ReadAll(c) =>
        (buf[c] \in MalformedDocs \cup MissingRequiredDocs \cup ScalarWrongTypeDocs
            => result[c] = ErrResult("JsonError"))

\* C6: a call that has returned made one attempt and ended in exactly one of
\* Ok with a fully populated PartitionConfig, FileError or JsonError; an error
\* carries no configuration, the open was tried once, the deserializer ran at
\* most once, and an Ok result is what the deserializer made of the text read.
C6_OneAttemptThreeOutcomes ==
    \A c \in Calls : Done(c) =>
        /\ result[c].kind \in {"Ok", "FileError", "JsonError"}
        /\ (result[c].kind = "Ok") <=> (Len(result[c].config) = 1)
        /\ result[c].kind = "Ok" =>
              /\ DOMAIN result[c].config[1] = FieldNames("PartitionConfig")
              /\ outcome[c].ok /\ result[c].config = outcome[c].config
              /\ \A g \in 1..Len(result[c].config[1].groups) :
                    DOMAIN result[c].config[1].groups[g] = FieldNames("Group")
              /\ \A g \in 1..Len(result[c].config[1].partitions) :
                    DOMAIN result[c].config[1].partitions[g] = FieldNames("Partition")
        /\ opens[c] = 1
        /\ parses[c] <= 1
        /\ (result[c].kind = "FileError") => parses[c] = 0

C6_Witness ==
    \E c, d \in Calls :
        /\ Done(c) /\ result[c].kind = "JsonError" /\ rd[c] = "eof" /\ parses[c] = 1
        /\ Done(d) /\ result[d].kind = "FileError"

\* C7: when a call has returned, the file handle it opened is closed, on
\* success, on a parse failure and on a read failure after the open.
C7_HandleClosedOnReturn == \A c \in Calls : Done(c) => ~handle[c]

C7_Witness ==
    \E c, d \in Calls :
        /\ Done(c) /\ result[c].kind = "Ok"
        /\ Done(d) /\ rd[d] = "ioerr" /\ opens[d] = 1

\* C8: two calls on the same path, the file unchanged during and between
\* them, return the same outcome: equal configurations or errors of one kind.
C8_SameFileSameOutcome ==
    \A c, d \in Calls :
        (/\ c # d /\ Clean(c) /\ Clean(d)
         /\ path[c] = path[d] /\ startVer[c] = startVer[d])
        => result[c] = result[d]

C8_Witness ==
    \E c, d \in Calls :
        /\ c # d /\ Clean(c) /\ Clean(d)
        /\ path[c] = path[d] /\ startVer[c] = startVer[d]
        /\ result[c].kind = "Ok" /\ result[d].kind = "Ok"
        /\ writes[path[c]] = startVer[c]

\* What a call returns when it runs alone on a file.
Alone(f) ==
    IF f.kind = "missing" THEN ErrResult("FileError")
    ELSE IF f.kind = "dir" THEN ErrResult("JsonError")
    ELSE LET r == from_reader(f.toks)
         IN IF r.ok THEN OkResult(r.val) ELSE ErrResult("JsonError")

\* The calls made so far are on different files.
DifferentFiles ==
    \A c, d \in Calls : (c # d /\ pc[c] # "idle" /\ pc[d] # "idle") => path[c] # path[d]

\* C9: calls that run concurrently on different files that nothing else
\* rewrites return, in every interleaving of their steps, what each would
\* return alone, and no step of a call changes a file.
C9_ConcurrentCallsIndependent ==
    /\ \A c \in Calls : (Clean(c) /\ DifferentFiles) => result[c] = Alone(file0[c])
    /\ \A c \in Calls :
          (pc[c] # "idle" /\ writes[path[c]] = startVer[c]) => fs[path[c]] = file0[c]

C9_Witness ==
    /\ DifferentFiles
    /\ \A c \in Calls : Clean(c)
    /\ \E c, d \in Calls :
          /\ result[c].kind = "Ok" /\ result[d].kind = "Ok"
          /\ result[c] # result[d]

\* Documents with keys that name no field, and what each describes.
UnknownKeyInputs ==
    {[toks |-> Ser(FullOrder, om, TypeFx(ty, "unknown")), cfg |-> Described(FullOrder, om)] :
        om \in Omits, ty \in StructNames}
\* Documents that write an optional key with capitals, and what each describes.
MiscasedOptionalInputs ==
    {[toks |-> Ser(FullOrder, om, Fx(f, "case")),
      cfg |-> BlankField(Described(FullOrder, om), f)] :
        om \in Omits, f \in OptionalFields}
MiscasedRequiredDocs ==
    {Ser(FullOrder, om, Fx(f, "case")) : om \in Omits, f \in RequiredFields}

\* C10: keys that are not a declared snake_case name, a declared name in
\* another letter case included, are ignored: the document loads as it does
\* without them, a miscased optional key leaves its field the empty string,
\* a miscased required key fails with JsonError as a missing field.
C10_UnknownKeysIgnored ==
    \A c \in Calls : ReadAll(c) =>
        /\ \A d \in UnknownKeyInputs \cup MiscasedOptionalInputs :
              buf[c] = d.toks => result[c] = OkResult(d.cfg)
        /\ buf[c] \in MiscasedRequiredDocs => result[c] = ErrResult("JsonError")

C10_Witness ==
    \E c \in Calls :
        /\ ReadAll(c)
        /\ buf[c] = Ser(FullOrder, {}, Fx(<<"Partition", "path">>, "case"))
        /\ result[c].kind = "Ok"
        /\ result[c].config[1].partitions[1].path = ""
        /\ result[c].config[1].partitions[1].size = "10"

====
